---------------------------- MODULE Spec2Model ----------------------------
(***************************************************************************)
(* AstMultiDialer (astmultidialer.c): the interactive session loop, the    *)
(* command interpreter run_command, the channel resolver find_channel,     *)
(* hangup_all, the SIGINT handler restore_term and the forced-disconnect   *)
(* callback simple_disconnect_callback.                                    *)
(*                                                                         *)
(* Text is modelled as sequences of one-character strings.  The AMI        *)
(* library (cami) is outside the repository: an action is modelled at its  *)
(* call sites as a request that blocks the caller until it returns NULL    *)
(* ("none") or a response that is a success or a failure.                  *)
(***************************************************************************)
EXTENDS Integers, Sequences, FiniteSets, TLC

(***************************************************************************)
(* Program constants                                                       *)
(***************************************************************************)
MAX_LINES == 9

InputBufSize == 64

DeviceNameSize == 64

DialStrSize == 84

DialExtenSize == 64

ChannelSize == 128

EXIT_SUCCESS == 0

EXIT_FAILURE == 1

(***************************************************************************)
(* Bounds of the model                                                     *)
(***************************************************************************)
\* Most channel entries between the two framing entries of a channel list.
MaxChannels == 2

\* The length of a stream of characters typed without a newline.
MaxStream == 130

(***************************************************************************)
(* Characters and C strings                                                *)
(***************************************************************************)
NL == "\n"

NUL == "NUL"

Digits == {"0", "1", "2", "3", "4", "5", "6", "7", "8", "9"}

DigitVal(c) ==
    CASE c = "0" -> 0 [] c = "1" -> 1 [] c = "2" -> 2 [] c = "3" -> 3
      [] c = "4" -> 4 [] c = "5" -> 5 [] c = "6" -> 6 [] c = "7" -> 7
      [] c = "8" -> 8 [] c = "9" -> 9

DigitChar(d) ==
    CASE d = 0 -> "0" [] d = 1 -> "1" [] d = 2 -> "2" [] d = 3 -> "3"
      [] d = 4 -> "4" [] d = 5 -> "5" [] d = 6 -> "6" [] d = 7 -> "7"
      [] d = 8 -> "8" [] d = 9 -> "9"

\* isdigit(3) and isspace(3) in the C locale.
IsDigit(c) == c \in Digits

IsSpace(c) == c \in {" ", "\t", "\n", "\r", "\f"}

\* tolower(3) in the C locale, on the letters the commands use.
ToLower(c) ==
    CASE c = "A" -> "a" [] c = "D" -> "d" [] c = "F" -> "f" [] c = "H" -> "h"
      [] c = "K" -> "k" [] c = "M" -> "m" [] c = "O" -> "o" [] c = "P" -> "p"
      [] c = "Q" -> "q" [] c = "S" -> "s" [] c = "T" -> "t" [] c = "X" -> "x"
      [] OTHER -> c

\* *s of a C string: the terminator when the string is empty.
CharAt(s) == IF s = <<>> THEN NUL ELSE Head(s)

\* s + 1 of a C string; stepping over the terminator leaves nothing to read.
Advance(s) == IF s = <<>> THEN <<>> ELSE Tail(s)

Take(s, k) == IF Len(s) <= k THEN s ELSE SubSeq(s, 1, k)

IsPrefix(p, s) == Len(p) <= Len(s) /\ SubSeq(s, 1, Len(p)) = p

RECURSIVE IndexOf(_, _, _)
IndexOf(s, c, i) ==
    IF i > Len(s) THEN 0
    ELSE IF s[i] = c THEN i ELSE IndexOf(s, c, i + 1)

\* run_command without the cut at the comment.
StripCommentNot(command) == command

\* tmp = strchr(command, ';'); if (tmp) *tmp = '\0';
StripComment(command) ==
    LET i == IndexOf(command, ";", 1)
    IN  IF i = 0 THEN command ELSE SubSeq(command, 1, i - 1)

\* The ltrim macro.
RECURSIVE Ltrim(_)
Ltrim(s) == IF s # <<>> /\ IsSpace(Head(s)) THEN Ltrim(Tail(s)) ELSE s

RECURSIVE AtoiDigits(_, _)
AtoiDigits(s, acc) ==
    IF s # <<>> /\ IsDigit(Head(s))
    THEN AtoiDigits(Tail(s), 10 * acc + DigitVal(Head(s)))
    ELSE acc

\* atoi(3): skip white space, take an optional sign, then the decimal digits
\* up to the first other character.  The lines typed in the model are far
\* too short to overflow an int.
Atoi(s) ==
    LET t == Ltrim(s)
    IN  IF CharAt(t) = "-" THEN 0 - AtoiDigits(Tail(t), 0)
        ELSE IF CharAt(t) = "+" THEN AtoiDigits(Tail(t), 0)
        ELSE AtoiDigits(t, 0)

\* printf's %d of a positive int.
RECURSIVE Itoa(_)
Itoa(k) == IF k < 10 THEN <<DigitChar(k)>> ELSE Itoa(k \div 10) \o <<DigitChar(k % 10)>>

\* strcasecmp(a, b) = 0
StrCaseEq(a, b) ==
    /\ Len(a) = Len(b)
    /\ \A i \in 1..Len(a) : ToLower(a[i]) = ToLower(b[i])

\* strncasecmp(a, b, k) = 0 for a b of k characters
StrNCaseEq(a, b, k) == Len(a) >= k /\ StrCaseEq(SubSeq(a, 1, k), Take(b, k))


(***************************************************************************)
(* The line registry                                                       *)
(***************************************************************************)
PJSIP == <<"P", "J", "S", "I", "P", "/">>

PEER_PREFIX == <<"a", "u", "t", "o", "t", "e", "s", "t">>

PLAR_CODE == <<"0", "1">>

PLAR_DIALPLAN_CONTEXT == <<"i", "d", "l", "e">>

PLAR_DIALPLAN_EXTEN == <<"9", "9", "9", "9">>

\* snprintf(buf, size, ...): at most size - 1 characters are stored.
Snprintf(size, s) == Take(s, size - 1)

\* snprintf(lines[n].devicename, ..., "PJSIP/%s%d", PEER_PREFIX, n)
DeviceName(k) == Snprintf(DeviceNameSize, PJSIP \o PEER_PREFIX \o Itoa(k))

\* snprintf(lines[n].dialstr, ..., "PJSIP/%s@%s%d", PLAR_CODE, PEER_PREFIX, n)
DialStr(k) ==
    Snprintf(DialStrSize, PJSIP \o PLAR_CODE \o <<"@">> \o PEER_PREFIX \o Itoa(k))

DialExten == Snprintf(DialExtenSize, PLAR_DIALPLAN_CONTEXT)

\* A zero-initialised struct line.
EmptyLine ==
    [devicename |-> <<>>, dialstr |-> <<>>, dialexten |-> <<>>,
     channel |-> <<>>, offhook |-> FALSE]

\* The three snprintf calls run_command makes for a line command.
Derive(l, k) ==
    [l EXCEPT !.devicename = DeviceName(k), !.dialstr = DialStr(k),
              !.dialexten = DialExten]

OffHookSet(ls) == {k \in 1..MAX_LINES : ls[k].offhook}

\* hangup_all's scan starting one slot too far.
NextOffHookSkipping(ls, from) ==
    LET S == {k \in (from + 1)..MAX_LINES : ls[k].offhook}
    IN  IF S = {} THEN 0 ELSE CHOOSE k \in S : \A j \in S : k <= j

\* hangup_all's scan: the first line at or after index from that is off hook,
\* 0 when the loop runs off the end of the registry.
NextOffHook(ls, from) ==
    LET S == {k \in from..MAX_LINES : ls[k].offhook}
    IN  IF S = {} THEN 0 ELSE CHOOSE k \in S : \A j \in S : k <= j

\* hangup_all's loop leaving at the first hangup that does not succeed.
NextIndexBreaking(j, r) == IF r = "success" THEN j + 1 ELSE MAX_LINES + 1

\* hangup_all's i++ after the hangup of line j was answered r: the loop goes
\* on whatever the answer.
NextIndex(j, r) == j + 1

\* if (resp && resp->success) lines[i].offhook = 0;
AfterHangup(l, r) == IF r = "success" THEN [l EXCEPT !.offhook = FALSE] ELSE l

\* The line marked off hook whatever the Originate action returned.
AfterOriginateAlways(l, r) == [l EXCEPT !.offhook = TRUE]

\* if (resp && resp->success) lines[n].offhook = 1;
AfterOriginate(l, r) == IF r = "success" THEN [l EXCEPT !.offhook = TRUE] ELSE l

(***************************************************************************)
(* The channel resolver                                                    *)
(***************************************************************************)
\* The scan of find_channel keeping the last event that matches.
FirstMatchLast(events, prefix) ==
    LET S == {j \in 2..(Len(events) - 1) : IsPrefix(prefix, events[j])}
    IN  IF S = {} THEN 0 ELSE CHOOSE j \in S : \A k \in S : j >= k

\* The scan of find_channel over resp->events[1 .. size - 2] (the first and
\* the last event frame the list): the index, counted from 1, of the first
\* event whose Channel starts with the prefix, 0 when there is none.
FirstMatch(events, prefix) ==
    LET S == {j \in 2..(Len(events) - 1) : IsPrefix(prefix, events[j])}
    IN  IF S = {} THEN 0 ELSE CHOOSE j \in S : \A k \in S : j <= k

\* strncpy(lines[n].channel, channel, sizeof(lines[n].channel) - 1) into a
\* field whose last byte is never written and stays 0.
Strncpy(size, s) == Take(s, size - 1)

\* find_channel taking the line back on hook when no channel matches.
ResolveRollingBack(l, events) ==
    LET j == FirstMatch(events, l.devicename)
    IN  IF j = 0 THEN [l EXCEPT !.offhook = FALSE]
        ELSE [l EXCEPT !.channel = Strncpy(ChannelSize, events[j])]

\* find_channel's effect on line n, given the events of the response.
Resolve(l, events) ==
    LET j == FirstMatch(events, l.devicename)
    IN  IF j = 0 THEN l ELSE [l EXCEPT !.channel = Strncpy(ChannelSize, events[j])]

(***************************************************************************)
(* The command parser (the head of run_command)                            *)
(***************************************************************************)
\* Lines 186-200: the comment is cut off; a leading digit makes atoi read the
\* line number, a number of 0 is refused, otherwise one character is skipped
\* and then white space.  hasnum: the text starts with a digit; n: the line
\* number (0: none); command: the text left for the verb.
Parsed(command) ==
    LET c1 == StripComment(command)
        hasnum == IsDigit(CharAt(c1))
        num == IF hasnum THEN Atoi(c1) ELSE 0
    IN  [hasnum |-> hasnum, n |-> num,
         command |-> IF hasnum /\ num # 0 THEN Ltrim(Advance(c1)) ELSE c1]

\* REQUIRE_ACTIVE without its test: every line passes.
RequireActiveAlways(ls, k) == TRUE

\* REQUIRE_ACTIVE passes.
RequireActive(ls, k) == ls[k].offhook

\* The global commands with the tests for q and k exchanged.
GlobalKindSwapped(command) ==
    IF CharAt(command) = "s" THEN "sleep"
    ELSE IF StrNCaseEq(command, <<"m", "s">>, 2) THEN "msleep"
    ELSE IF StrCaseEq(command, <<"k">>) THEN "quit"
    ELSE IF StrCaseEq(command, <<"q">>) THEN "hangup_all"
    ELSE "unknownglobal"

\* The branch a global command takes (lines 270-286).
GlobalKind(command) ==
    IF CharAt(command) = "s" THEN "sleep"
    ELSE IF StrNCaseEq(command, <<"m", "s">>, 2) THEN "msleep"
    ELSE IF StrCaseEq(command, <<"q">>) THEN "quit"
    ELSE IF StrCaseEq(command, <<"k">>) THEN "hangup_all"
    ELSE "unknownglobal"

\* The branch of run_command the parsed command takes (lines 192-287).
Kind(p, ls) ==
    LET verb == ToLower(CharAt(p.command))
        arg == Advance(p.command)
    IN  IF p.hasnum /\ p.n = 0 THEN "badline"
        ELSE IF p.n # 0 THEN
            CASE verb = "a" -> "answer"
              [] verb = "o" -> "originate"
              [] verb = "h" -> IF RequireActive(ls, p.n) THEN "hangup" ELSE "inactive"
              [] verb = "f" -> IF RequireActive(ls, p.n) THEN "flash" ELSE "inactive"
              [] verb = "d" -> IF ~RequireActive(ls, p.n) THEN "inactive"
                               ELSE IF CharAt(arg) = "t" THEN "dtmf"
                               ELSE IF CharAt(arg) = "p" THEN "pulse"
                               ELSE "baddial"
              [] OTHER -> "unknownline"
        ELSE GlobalKind(p.command)

\* The dial loop starting one character too far.
DialDigitsSkipping(command) == Advance(Advance(Advance(command)))

\* Where command points when the PlayDTMF loop starts (lines 209, 251): the
\* switch has stepped over the verb d and tmp = command++ over the dial type.
DialDigits(command) == Advance(Advance(command))

\* What the branches that call nothing print.
Message(kind) ==
    CASE kind = "badline" -> "Line number must be between 1 and 9"
      [] kind = "answer" -> "XXX Not implemented yet"
      [] kind = "inactive" -> "Can't do this action on on-hook line"
      [] kind = "pulse" -> "Dial pulse not yet supported"
      [] kind = "baddial" -> "Invalid dial type"
      [] kind = "unknownline" -> "Unknown line command"
      [] kind = "unknownglobal" -> "Unknown global command"

MessageKinds ==
    {"badline", "answer", "inactive", "pulse", "baddial", "unknownline",
     "unknownglobal"}

(***************************************************************************)
(* The environment: what is typed and what the AMI server answers          *)
(***************************************************************************)
\* The chunks of input the operator (or a script) feeds to stdin.
InputLines ==
    { <<"1", "o", NL>>, <<"9", "o", NL>>, <<"1", "h", NL>>, <<"9", "h", NL>>,
      <<"1", "f", NL>>, <<"9", "f", NL>>,
      <<"1", "d", "t", "4", "7", NL>>, <<"9", "d", "t", "#", NL>>,
      <<"1", "d", "p", "4", NL>>, <<"1", "d", "x", NL>>,
      <<"1", "a", NL>>, <<"1", "x", NL>>,
      <<"k", NL>>, <<"q", NL>>, <<"s", "5", NL>>, <<"m", "s", "5", NL>>,
      <<"x", NL>>, <<NL>>,
      <<"0", "o", NL>>, <<"1", "0", "o", NL>>, <<"1", "2", "h", NL>>,
      <<"1", "?">>,
      <<"1", "o", ";", "h", NL>>, <<"1", "d", "t", "4", ";", "7", NL>>,
      <<"k", ";", "q", NL>>, <<";", "q", NL>>,
      <<" ", "q", NL>>, <<"1", " ", "o", NL>>, <<" ", "1", "o", NL>> }

\* Streams typed without a newline and without a ?: one character repeated,
\* or 1 and o in turn.
LongStreams ==
    { [i \in 1..MaxStream |-> "q"], [i \in 1..MaxStream |-> "x"],
      [i \in 1..MaxStream |-> IF i % 2 = 1 THEN "1" ELSE "o"] }

\* Lines s5;<comment>: the comment is short, holds a ?, or makes the line
\* longer than the input buffer.
CommentLines ==
    { <<"s", "5", ";", "q", NL>>,
      <<"s", "5", ";", "?", "q", NL>>,
      <<"s", "5", ";">> \o [i \in 1..MaxStream |-> "x"] \o <<NL>> }

\* The Channel of the events a channel list can hold.
Chan(dev, tag) == PJSIP \o PEER_PREFIX \o dev \o <<"-">> \o tag

ChannelNames ==
    { Chan(<<"1">>, <<"a">>), Chan(<<"1">>, <<"b">>), Chan(<<"9">>, <<"a">>),
      Chan(<<"1", "2">>, <<"a">>) }

\* The first and the last event of a CoreShowChannels response.
Header == <<"Response">>

Footer == <<"CoreShowChannelsComplete">>

ChannelLists ==
    UNION { { <<Header>> \o b \o <<Footer>> : b \in [1..k -> ChannelNames] } :
            k \in 0..MaxChannels }

(***************************************************************************)
(* State                                                                   *)
(***************************************************************************)
VARIABLES
    lines,        \* lines[1..MAX_LINES]: the registry (slot 0 is never used)
    oob,          \* the indexes beyond the registry that were written
    term,         \* the terminal mode: "tty" (ttyterm) or "orig" (origterm)
    connected,    \* the AMI connection is up (until ami_disconnect)
    inputbuf,     \* inputbuf[0 .. pos - 1]
    left,         \* left
    reset,        \* reset
    stdin,        \* the rest of the chunk being typed
    pc,           \* where the main flow is
    op,           \* the AMI action the main flow waits for
    n,            \* run_command's n
    rest,         \* run_command's command pointer in the dt loop
    ki,           \* hangup_all's i, called for k
    res,          \* run_command's return value
    hpc,          \* where the SIGINT handler is ("none": not delivered)
    hi,           \* hangup_all's i, called by the handler
    hfrom,        \* where the main flow was when the interrupt came
    outstanding,  \* AMI actions sent and not yet answered
    calls,        \* the AMI actions of the command being run, in order
    out,          \* what the command being run has printed, in order
    lines0,       \* the registry when the command being run started
    prevO,        \* the line the previous command took off hook (0: none)
    bound,        \* the off-hook lines whose channel id was bound by the
                  \* resolution of their most recent origination
    hcalls,       \* the hangups attempted since the interrupt or disconnect
    hlines0,      \* the lines off hook when the interrupt or disconnect came
    why,          \* why the session loop ended ("": it has not)
    exitStatus    \* <<status>> once the process has exited

vars ==
    <<lines, oob, term, connected, inputbuf, left, reset, stdin, pc, op, n,
      rest, ki, res, hpc, hi, hfrom, outstanding, calls, out, lines0, prevO,
      bound, hcalls, hlines0, why, exitStatus>>

\* The state when multidialer enters poll for the first time: the terminal is
\* in non-canonical mode, the SIGINT handler is installed, the connection is
\* up and logged in, the buffer is empty.
Init ==
    /\ lines = [k \in 1..MAX_LINES |-> EmptyLine]
    /\ oob = {}
    /\ term = "tty"
    /\ connected = TRUE
    /\ inputbuf = <<>>
    /\ left = InputBufSize - 1
    /\ reset = FALSE
    /\ stdin = <<>>
    /\ pc = "poll"
    /\ op = ""
    /\ n = 0
    /\ rest = <<>>
    /\ ki = 0
    /\ res = 0
    /\ hpc = "none"
    /\ hi = 0
    /\ hfrom = ""
    /\ outstanding = 0
    /\ calls = <<>>
    /\ out = <<>>
    /\ lines0 = lines
    /\ prevO = 0
    /\ bound = {}
    /\ hcalls = <<>>
    /\ hlines0 = {}
    /\ why = ""
    /\ exitStatus = <<>>

Alive == pc \notin {"exited", "crashed"}

\* The main flow is at p and no signal handler runs on top of it.
MainAt(p) == pc = p /\ hpc = "none"

\* What an AMI action can return: a response that succeeded or failed, or
\* NULL; only NULL once the connection has been released.
Responses == IF connected THEN {"success", "failure", "none"} ELSE {"none"}

\* The process image is gone: nothing of the main flow is left to observe.
NoProcess ==
    /\ inputbuf' = <<>>
    /\ left' = 0
    /\ reset' = FALSE
    /\ stdin' = <<>>
    /\ op' = ""
    /\ n' = 0
    /\ rest' = <<>>
    /\ ki' = 0
    /\ res' = 0
    /\ hi' = 0

bufVars == <<inputbuf, left, reset, stdin>>

locVars == <<op, n, rest, ki, res>>

hVars == <<hpc, hi, hfrom, hcalls, hlines0>>

logVars == <<calls, out, lines0, prevO, bound>>

endVars == <<why, exitStatus>>

sysVars == <<term, connected, oob>>

\* An AMI action as it is sent, and the log once its answer is in; events
\* holds the channel list of an answered CoreShowChannels, bound whether the
\* line was in bound when the action was sent.
Call(act, channel, digit, line) ==
    [act |-> act, channel |-> channel, digit |-> digit, line |-> line,
     resp |-> "pending", events |-> <<>>, bound |-> line \in bound]

\* bound once the Hangup of line k was answered r.
Unbound(k, r) == IF r = "success" THEN bound \ {k} ELSE bound

Answered(log, r) == [log EXCEPT ![Len(log)].resp = r]

Listed(log, events) ==
    [log EXCEPT ![Len(log)].resp = "success", ![Len(log)].events = events]

(***************************************************************************)
(* The session loop (multidialer, lines 340-382)                           *)
(***************************************************************************)
\* if (reset) { pos = inputbuf; left = sizeof(inputbuf) - 1; reset = 0; }
Pos0 == IF reset THEN <<>> ELSE inputbuf

Left0 == IF reset THEN InputBufSize - 1 ELSE left

\* The loop never finding the command too long.
TooLongNever(l) == FALSE

\* The buffer is reset when the decremented left is at the margin.
TooLong(l) == l <= 1

\* poll fails with EINTR: continue.
PollEintr ==
    /\ MainAt("poll")
    /\ inputbuf' = Pos0
    /\ left' = Left0
    /\ reset' = FALSE
    /\ UNCHANGED <<lines, sysVars, stdin, pc, locVars, hVars, outstanding,
                   logVars, endVars>>

\* poll fails with another error: break.
PollError ==
    /\ MainAt("poll")
    /\ inputbuf' = Pos0
    /\ left' = Left0
    /\ reset' = FALSE
    /\ pc' = "teardown"
    /\ why' = "pollerr"
    /\ UNCHANGED <<lines, sysVars, stdin, locVars, hVars, outstanding,
                   logVars, exitStatus>>

\* read returns less than 1: break.
ReadEOF ==
    /\ MainAt("poll")
    /\ inputbuf' = Pos0
    /\ left' = Left0
    /\ reset' = FALSE
    /\ pc' = "teardown"
    /\ why' = "eof"
    /\ UNCHANGED <<lines, sysVars, stdin, locVars, hVars, outstanding,
                   logVars, exitStatus>>

\* read returns one character c, the next of the chunk being typed.
ReadOne(chunk) ==
    /\ MainAt("poll")
    /\ LET c == Head(chunk)
       IN    /\ stdin' = Tail(chunk)
             /\ IF c = NL
                THEN \* *pos = '\0'; run_command(inputbuf)
                     /\ inputbuf' = Pos0
                     /\ left' = Left0
                     /\ reset' = FALSE
                     /\ pc' = "run"
                ELSE IF c = "?"
                THEN \* show_command_help(); reset = 1;
                     /\ inputbuf' = Pos0
                     /\ left' = Left0
                     /\ reset' = TRUE
                     /\ pc' = "poll"
                ELSE \* *pos++ = c; if (--left <= 1) reset = 1;
                     /\ inputbuf' = Append(Pos0, c)
                     /\ left' = Left0 - 1
                     /\ reset' = TooLong(Left0 - 1)
                     /\ pc' = "poll"
    /\ UNCHANGED <<lines, sysVars, locVars, hVars, outstanding, logVars,
                   endVars>>

\* The operator types command lines: the next character of the line being
\* typed, or the first of a new one.
ReadChar ==
    \E chunk \in (IF stdin = <<>> THEN InputLines ELSE {stdin}) : ReadOne(chunk)

\* A stream without a newline is fed to stdin: its next character.
ReadLong == stdin # <<>> /\ ReadOne(stdin)

\* A stream without a newline starts.
StartLong ==
    /\ stdin = <<>>
    /\ inputbuf = <<>>
    /\ \E chunk \in LongStreams : ReadOne(chunk)

\* The operator types lines that end in a comment.
ReadComment ==
    \E chunk \in (IF stdin = <<>> THEN CommentLines ELSE {stdin}) : ReadOne(chunk)

\* run_command has returned (lines 365-369): break when it returned non-zero,
\* otherwise empty the buffer and prompt again.
AfterCommand ==
    /\ MainAt("ret")
    /\ IF res # 0
       THEN /\ pc' = "teardown"
            /\ why' = "q"
            /\ UNCHANGED <<bufVars, locVars, logVars>>
       ELSE /\ pc' = "poll"
            /\ inputbuf' = <<>>
            /\ reset' = TRUE
            /\ prevO' = IF /\ n \in 1..MAX_LINES
                           /\ Len(calls) = 2
                           /\ calls[1].act = "Originate"
                           /\ out = <<"OK">>
                           /\ ~lines0[n].offhook
                        THEN n ELSE 0
            /\ calls' = <<>>
            /\ out' = <<>>
            /\ lines0' = lines
            /\ op' = ""
            /\ n' = 0
            /\ rest' = <<>>
            /\ ki' = 0
            /\ UNCHANGED <<left, stdin, res, why, bound>>
    /\ UNCHANGED <<lines, sysVars, hVars, outstanding, exitStatus>>

\* After the loop: ami_disconnect();
TeardownDisconnect ==
    /\ MainAt("teardown")
    /\ connected' = FALSE
    /\ pc' = "teardown2"
    /\ UNCHANGED <<lines, oob, term, bufVars, locVars, hVars, outstanding,
                   logVars, endVars>>

\* tcsetattr(STDIN_FILENO, TCSANOW, &origterm); return 0; and main returns 0.
TeardownReturn ==
    /\ MainAt("teardown2")
    /\ term' = "orig"
    /\ pc' = "exited"
    /\ exitStatus' = <<EXIT_SUCCESS>>
    /\ UNCHANGED <<lines, oob, connected, bufVars, locVars, hVars, outstanding,
                   logVars, why>>

(***************************************************************************)
(* run_command (lines 180-290)                                             *)
(***************************************************************************)
\* The registry after the three snprintf calls of a line command on slot k;
\* a k beyond the registry writes outside it.
Written(ls, k) ==
    IF k \in 1..MAX_LINES THEN [ls EXCEPT ![k] = Derive(@, k)] ELSE ls

OobAfter(k) == IF k > MAX_LINES THEN oob \cup {k} ELSE oob

\* What every branch of run_command does first: cut the comment, parse the
\* line number, write the derived names of the line.
RunPrelude(p) ==
    /\ MainAt("run")
    /\ inputbuf' = StripComment(inputbuf)
    /\ n' = p.n
    /\ lines' = Written(lines, p.n)
    /\ oob' = OobAfter(p.n)
    /\ lines0' = lines
    /\ UNCHANGED <<term, connected, left, reset, stdin, hVars, prevO, bound, endVars>>

\* The branches that print a message and return 0.
RunMessage ==
    LET p == Parsed(inputbuf)
        kind == Kind(p, lines)
    IN  /\ RunPrelude(p)
        /\ kind \in MessageKinds
        /\ out' = <<Message(kind)>>
        /\ pc' = "ret"
        /\ res' = 0
        /\ UNCHANGED <<op, rest, ki, outstanding, calls>>

\* A write beyond the registry is undefined behaviour: the build either goes
\* on (RunMessage, with the slot recorded in oob) or faults on the write.
RunCrash ==
    LET p == Parsed(inputbuf)
    IN  /\ MainAt("run")
        /\ p.n > MAX_LINES
        /\ oob' = OobAfter(p.n)
        /\ pc' = "crashed"
        /\ why' = "crash"
        /\ NoProcess
        /\ UNCHANGED <<lines, term, connected, hpc, hfrom, hcalls, hlines0,
                       outstanding, logVars, exitStatus>>

\* case 'o': resp = ami_action("Originate", ...)
RunOriginate ==
    LET p == Parsed(inputbuf)
    IN  /\ RunPrelude(p)
        /\ Kind(p, lines) = "originate"
        /\ calls' = <<Call("Originate", DialStr(p.n), "", p.n)>>
        /\ outstanding' = outstanding + 1
        /\ pc' = "wait"
        /\ op' = "o"
        /\ UNCHANGED <<rest, ki, res, out>>

\* The Originate action returns.  On success the line is marked off hook and
\* find_channel sends its query.
OriginateResp ==
    /\ MainAt("wait")
    /\ op = "o"
    /\ \E r \in Responses :
         /\ lines' = [lines EXCEPT ![n] = AfterOriginate(@, r)]
         /\ bound' = IF r = "success" THEN bound \ {n} ELSE bound
         /\ IF r = "success"
            THEN /\ calls' = Append(Answered(calls, r),
                                    Call("CoreShowChannels", <<>>, "", n))
                 /\ op' = "fc"
                 /\ UNCHANGED <<pc, res, out, outstanding>>
            ELSE /\ calls' = Answered(calls, r)
                 /\ out' = <<IF r = "none" THEN "No response"
                                            ELSE "Failed to go off hook">>
                 /\ outstanding' = outstanding - 1
                 /\ pc' = "ret"
                 /\ res' = 0
                 /\ UNCHANGED op
    /\ UNCHANGED <<sysVars, bufVars, n, rest, ki, hVars, lines0, prevO,
                   endVars>>

\* find_channel: ami_action_show_channels returns NULL, or a list that is
\* scanned for the device name of line n.
FindChannelResp ==
    /\ MainAt("wait")
    /\ op = "fc"
    /\ \/ /\ calls' = Answered(calls, "none")
          /\ out' = <<"Failed to show channels">>
          /\ UNCHANGED <<lines, bound>>
       \/ /\ connected
          /\ \E events \in ChannelLists :
               /\ calls' = Listed(calls, events)
               /\ lines' = [lines EXCEPT ![n] = Resolve(@, events)]
               /\ out' = <<IF FirstMatch(events, lines[n].devicename) = 0
                           THEN "Failed to find channel" ELSE "OK">>
               /\ bound' = IF FirstMatch(events, lines[n].devicename) = 0
                           THEN bound ELSE bound \cup ({n} \cap 1..MAX_LINES)
    /\ outstanding' = outstanding - 1
    /\ pc' = "ret"
    /\ res' = 0
    /\ UNCHANGED <<sysVars, bufVars, op, n, rest, ki, hVars, lines0, prevO,
                   endVars>>

\* case 'h' on an off-hook line: resp = ami_action("Hangup", ...)
RunHangup ==
    LET p == Parsed(inputbuf)
    IN  /\ RunPrelude(p)
        /\ Kind(p, lines) = "hangup"
        /\ calls' = <<Call("Hangup", lines[p.n].channel, "", p.n)>>
        /\ outstanding' = outstanding + 1
        /\ pc' = "wait"
        /\ op' = "h"
        /\ UNCHANGED <<rest, ki, res, out>>

HangupResp ==
    /\ MainAt("wait")
    /\ op = "h"
    /\ \E r \in Responses :
         /\ lines' = [lines EXCEPT ![n] = AfterHangup(@, r)]
         /\ calls' = Answered(calls, r)
         /\ out' = <<CASE r = "none" -> "No response"
                       [] r = "success" -> "OK"
                       [] r = "failure" -> "Failed to go on hook">>
         /\ bound' = Unbound(n, r)
    /\ outstanding' = outstanding - 1
    /\ pc' = "ret"
    /\ res' = 0
    /\ UNCHANGED <<sysVars, bufVars, op, n, rest, ki, hVars, lines0, prevO,
                   endVars>>

\* case 'f' on an off-hook line: resp = ami_action("SendFlash", ...)
RunFlash ==
    LET p == Parsed(inputbuf)
    IN  /\ RunPrelude(p)
        /\ Kind(p, lines) = "flash"
        /\ calls' = <<Call("SendFlash", lines[p.n].channel, "", p.n)>>
        /\ outstanding' = outstanding + 1
        /\ pc' = "wait"
        /\ op' = "f"
        /\ UNCHANGED <<rest, ki, res, out>>

FlashResp ==
    /\ MainAt("wait")
    /\ op = "f"
    /\ \E r \in Responses :
         /\ calls' = Answered(calls, r)
         /\ out' = <<CASE r = "none" -> "No response"
                       [] r = "success" -> "OK"
                       [] r = "failure" -> "Failed to send flash">>
    /\ outstanding' = outstanding - 1
    /\ pc' = "ret"
    /\ res' = 0
    /\ UNCHANGED <<lines, sysVars, bufVars, op, n, rest, ki, hVars, lines0,
                   prevO, bound, endVars>>

\* case 'd' with dial type 't' on an off-hook line: command points at the
\* first digit.
RunDial ==
    LET p == Parsed(inputbuf)
    IN  /\ RunPrelude(p)
        /\ Kind(p, lines) = "dtmf"
        /\ rest' = DialDigits(p.command)
        /\ pc' = "dt_loop"
        /\ UNCHANGED <<op, ki, res, outstanding, calls, out>>

\* while (*command) { resp = ami_action("PlayDTMF", ..., *command); command++; }
DialStep ==
    /\ MainAt("dt_loop")
    /\ IF rest = <<>>
       THEN /\ pc' = "ret"
            /\ res' = 0
            /\ UNCHANGED <<op, rest, outstanding, calls>>
       ELSE /\ calls' = Append(calls,
                               Call("PlayDTMF", lines[n].channel, Head(rest), n))
            /\ outstanding' = outstanding + 1
            /\ rest' = Tail(rest)
            /\ pc' = "wait"
            /\ op' = "dt"
            /\ UNCHANGED res
    /\ UNCHANGED <<lines, sysVars, bufVars, n, ki, hVars, out, lines0, prevO, bound,
                   endVars>>

\* The PlayDTMF action returns; its response is not looked at.
DialResp ==
    /\ MainAt("wait")
    /\ op = "dt"
    /\ \E r \in Responses : calls' = Answered(calls, r)
    /\ outstanding' = outstanding - 1
    /\ pc' = "dt_loop"
    /\ UNCHANGED <<lines, sysVars, bufVars, op, n, rest, ki, res, hVars, out,
                   lines0, prevO, bound, endVars>>

\* The global commands s and ms: sleep(sleeptime) or usleep(sleeptime * 1000)
RunSleep ==
    LET p == Parsed(inputbuf)
    IN  /\ RunPrelude(p)
        /\ Kind(p, lines) \in {"sleep", "msleep"}
        /\ pc' = "sleep"
        /\ UNCHANGED <<op, rest, ki, res, outstanding, calls, out>>

SleepDone ==
    /\ MainAt("sleep")
    /\ pc' = "ret"
    /\ res' = 0
    /\ UNCHANGED <<lines, sysVars, bufVars, op, n, rest, ki, hVars,
                   outstanding, logVars, endVars>>

\* The global command q: return -1;
RunQuit ==
    LET p == Parsed(inputbuf)
    IN  /\ RunPrelude(p)
        /\ Kind(p, lines) = "quit"
        /\ pc' = "ret"
        /\ res' = 0 - 1
        /\ UNCHANGED <<op, rest, ki, outstanding, calls, out>>

\* The global command k: hangup_all();
RunHangupAll ==
    LET p == Parsed(inputbuf)
    IN  /\ RunPrelude(p)
        /\ Kind(p, lines) = "hangup_all"
        /\ pc' = "k_loop"
        /\ ki' = 1
        /\ UNCHANGED <<op, rest, res, outstanding, calls, out>>

\* hangup_all called for k: the loop runs to the next off-hook line and sends
\* its Hangup, or runs off the end and returns.
HangupAllStep ==
    /\ MainAt("k_loop")
    /\ LET j == NextOffHook(lines, ki)
       IN  IF j = 0
           THEN /\ pc' = "ret"
                /\ res' = 0
                /\ UNCHANGED <<op, ki, outstanding, calls>>
           ELSE /\ calls' = Append(calls, Call("Hangup", lines[j].channel, "", j))
                /\ outstanding' = outstanding + 1
                /\ ki' = j
                /\ pc' = "wait"
                /\ op' = "k"
                /\ UNCHANGED res
    /\ UNCHANGED <<lines, sysVars, bufVars, n, rest, hVars, out, lines0, prevO, bound,
                   endVars>>

HangupAllResp ==
    /\ MainAt("wait")
    /\ op = "k"
    /\ \E r \in Responses :
         /\ lines' = [lines EXCEPT ![ki] = AfterHangup(@, r)]
         /\ calls' = Answered(calls, r)
         /\ out' = IF r = "success" THEN Append(out, "Hung up line") ELSE out
         /\ ki' = NextIndex(ki, r)
         /\ bound' = Unbound(ki, r)
    /\ outstanding' = outstanding - 1
    /\ pc' = "k_loop"
    /\ UNCHANGED <<sysVars, bufVars, op, n, rest, res, hVars, lines0, prevO,
                   endVars>>

(***************************************************************************)
(* The SIGINT handler restore_term and the disconnect callback             *)
(***************************************************************************)
\* SIGINT is delivered (the handler is installed for the whole session and
\* the signal stays blocked while the handler runs): the handler takes over
\* the main flow and restores the terminal.  It ends in exit and never
\* returns, so the interrupted frame is dead: of the main flow only the place
\* of the interruption (pc) and its unanswered action are kept.
Sigint ==
    /\ Alive
    /\ hpc = "none"
    /\ term' = "orig"
    /\ hpc' = "hangup_all"
    /\ hi' = 1
    /\ hfrom' = pc
    /\ hlines0' = OffHookSet(lines)
    /\ hcalls' = <<>>
    /\ calls' = <<>>
    /\ out' = <<>>
    /\ lines0' = lines
    /\ prevO' = 0
    /\ inputbuf' = <<>>
    /\ left' = 0
    /\ reset' = FALSE
    /\ stdin' = <<>>
    /\ op' = ""
    /\ n' = 0
    /\ rest' = <<>>
    /\ ki' = 0
    /\ res' = 0
    /\ UNCHANGED <<lines, oob, connected, pc, outstanding, bound, endVars>>

\* hangup_all called by the handler.
HandlerHangupAllStep ==
    /\ Alive
    /\ hpc = "hangup_all"
    /\ LET j == NextOffHook(lines, hi)
       IN  IF j = 0
           THEN /\ hpc' = "disconnect"
                /\ UNCHANGED <<hi, hcalls, outstanding>>
           ELSE /\ hcalls' = Append(hcalls, Call("Hangup", lines[j].channel, "", j))
                /\ outstanding' = outstanding + 1
                /\ hi' = j
                /\ hpc' = "wait"
    /\ UNCHANGED <<lines, sysVars, bufVars, pc, locVars, hfrom, hlines0,
                   logVars, endVars>>

HandlerHangupAllResp ==
    /\ Alive
    /\ hpc = "wait"
    /\ \E r \in Responses :
         /\ lines' = [lines EXCEPT ![hi] = AfterHangup(@, r)]
         /\ hcalls' = Answered(hcalls, r)
         /\ hi' = NextIndex(hi, r)
         /\ bound' = Unbound(hi, r)
    /\ outstanding' = outstanding - 1
    /\ hpc' = "hangup_all"
    /\ UNCHANGED <<sysVars, bufVars, pc, locVars, hfrom, hlines0, calls, out,
                   lines0, prevO, endVars>>

\* ami_disconnect(); exit(EXIT_FAILURE);
HandlerExit ==
    /\ Alive
    /\ hpc = "disconnect"
    /\ connected' = FALSE
    /\ hpc' = "exit"
    /\ pc' = "exited"
    /\ why' = "sigint"
    /\ exitStatus' = <<EXIT_FAILURE>>
    /\ UNCHANGED <<lines, oob, term, outstanding, hfrom, hcalls, hlines0,
                   logVars, bufVars, locVars, hi>>

\* simple_disconnect_callback, run by the AMI library when the server drops
\* the connection: restore the terminal and exit(EXIT_FAILURE).
Disconnect ==
    /\ Alive
    /\ connected
    /\ term' = "orig"
    /\ pc' = "exited"
    /\ hpc' = IF hpc = "none" THEN "none" ELSE "exit"
    /\ why' = "disconnect"
    /\ exitStatus' = <<EXIT_FAILURE>>
    /\ hlines0' = OffHookSet(lines)
    /\ hcalls' = <<>>
    /\ calls' = <<>>
    /\ out' = <<>>
    /\ lines0' = lines
    /\ prevO' = 0
    /\ bound' = {}
    /\ NoProcess
    /\ UNCHANGED <<lines, oob, connected, outstanding, hfrom>>

Next ==
    \/ PollEintr
    \/ PollError
    \/ ReadEOF
    \/ ReadChar
    \/ AfterCommand
    \/ TeardownDisconnect
    \/ TeardownReturn
    \/ RunMessage
    \/ RunCrash
    \/ RunOriginate
    \/ OriginateResp
    \/ FindChannelResp
    \/ RunHangup
    \/ HangupResp
    \/ RunFlash
    \/ FlashResp
    \/ RunDial
    \/ DialStep
    \/ DialResp
    \/ RunSleep
    \/ SleepDone
    \/ RunQuit
    \/ RunHangupAll
    \/ HangupAllStep
    \/ HangupAllResp
    \/ Sigint
    \/ HandlerHangupAllStep
    \/ HandlerHangupAllResp
    \/ HandlerExit
    \/ Disconnect

Spec == Init /\ [][Next]_vars

\* Once the SIGINT handler runs, each of its steps is taken when it can be:
\* the flow of control goes on, and the Hangup action it waits for returns,
\* with a response or with NULL.  Nothing is assumed of what is typed, of the
\* signals, of the notifications or of the main flow.
LiveSpec ==
    /\ Spec
    /\ WF_vars(HandlerHangupAllStep)
    /\ WF_vars(HandlerHangupAllResp)
    /\ WF_vars(HandlerExit)

\* The session fed only streams without a newline: the loop reads them one
\* character at a time, and poll may be interrupted.
BufNext ==
    \/ StartLong
    \/ ReadLong
    \/ PollEintr

BufSpec == Init /\ [][BufNext]_vars

\* The session fed only lines that end in a comment: the loop reads them,
\* runs what the buffer holds at each newline, and leaves on q.
CommentNext ==
    \/ ReadComment
    \/ RunSleep
    \/ SleepDone
    \/ RunMessage
    \/ RunQuit
    \/ AfterCommand
    \/ TeardownDisconnect
    \/ TeardownReturn

CommentSpec == Init /\ [][CommentNext]_vars

(***************************************************************************)
(* Properties                                                              *)
(***************************************************************************)
\* A command is being run by the main flow: from the newline that starts
\* run_command to its return.  inputbuf holds its text, lines0 the registry
\* it started from, calls the AMI actions it has issued.
InCommand ==
    /\ hpc = "none"
    /\ pc \in {"run", "wait", "dt_loop", "k_loop", "sleep", "ret"}

\* The hook state and the channel id of every line are as when the command
\* started.
HookSame ==
    \A k \in 1..MAX_LINES :
        /\ lines[k].offhook = lines0[k].offhook
        /\ lines[k].channel = lines0[k].channel

\* The text of the command is line number k followed by the verb v.
LineCommand(k, v) == IsPrefix(Itoa(k) \o v, inputbuf)

\* The lines of a log of hangups are exactly the lines of S, in ascending
\* order, once each.
HangsUpExactly(log, S) ==
    /\ Len(log) = Cardinality(S)
    /\ \A j \in 1..Len(log) : log[j].act = "Hangup" /\ log[j].line \in S
    /\ \A j \in 1..(Len(log) - 1) : log[j].line < log[j + 1].line

\* C1: in every reachable state, for every line 1-9, the channel id is set
\* if and only if the line is off hook.  Stated of the states between two
\* commands (at the prompt), where no command is half done.
C1_ChannelIffOffHook ==
    MainAt("poll") =>
        \A k \in 1..MAX_LINES : (lines[k].channel # <<>>) <=> lines[k].offhook

\* C2: for a line 1-9 that is on hook, h, f, dt<digits> and dp<digits> are
\* refused before any AMI action: from the start of the command to its return
\* no action is issued and no line's hook state or channel id changes, and
\* the refusal is what is printed.
C2_OnHookRejected ==
    \A k \in 1..MAX_LINES :
        \A v \in {<<"h">>, <<"f">>, <<"d", "t">>, <<"d", "p">>} :
            (InCommand /\ LineCommand(k, v) /\ ~lines0[k].offhook)
                => /\ calls = <<>>
                   /\ HookSame
                   /\ pc \in {"run", "ret"}
                   /\ pc = "ret" =>
                        out = <<"Can't do this action on on-hook line">> /\ res = 0

\* C2's case: 9dt# has returned, refused, on the on-hook line 9 while line 1
\* is off hook.
C2_Witness ==
    /\ InCommand
    /\ pc = "ret"
    /\ inputbuf = <<"9", "d", "t", "#">>
    /\ ~lines0[9].offhook
    /\ lines0[1].offhook
    /\ calls = <<>>

\* C3: <n>o (origination and resolution succeed) on an on-hook line followed
\* by <n>h (hangup succeeds) leaves line n on hook with its channel id cleared.
C3_OriginateThenHangupClears ==
    \A k \in 1..MAX_LINES :
        (/\ InCommand
         /\ pc = "ret"
         /\ prevO = k
         /\ inputbuf = Itoa(k) \o <<"h">>
         /\ Len(calls) = 1
         /\ calls[1].resp = "success")
            => ~lines[k].offhook /\ lines[k].channel = <<>>

\* C4: a command whose leading digits evaluate to a number outside 1-9 is
\* refused: it is not run as a global command, it issues no AMI action, and
\* no slot outside 1..9 of the registry is read or written.
C4_OutOfRangeRejected ==
    /\ oob = {}
    /\ (InCommand /\ IsDigit(CharAt(inputbuf)) /\ Atoi(inputbuf) \notin 1..MAX_LINES)
          => calls = <<>> /\ pc \in {"run", "ret"} /\ HookSame

\* C5: the session loop ends only on q, end of input, a forced disconnect or
\* an interrupt: after any other input line (refused, failed, unknown,
\* unsupported or unparseable, whatever the AMI answers) the loop is still
\* running and accepts the next line.  Stated of every step taken while a
\* command other than q is run: it leaves the main flow in the command or
\* back at the prompt, unless an interrupt or a forced disconnect arrives.
C5_LoopEndsOnlyOn ==
    [][(InCommand /\ ~StrCaseEq(StripComment(inputbuf), <<"q">>))
          => \/ pc' \in {"run", "wait", "dt_loop", "k_loop", "sleep", "ret", "poll"}
             \/ hpc' # "none"
             \/ why' = "disconnect"]_vars

\* C6: k issues exactly one hangup for each off-hook line, on that line's
\* channel, in ascending order, and none for an on-hook line; a line whose
\* hangup succeeds is on hook, an on-hook line is unchanged, and a hangup that
\* fails or gets no answer does not stop the following ones.
C6_HangupAll ==
    (InCommand /\ pc = "ret" /\ StrCaseEq(inputbuf, <<"k">>))
        => /\ HangsUpExactly(calls, OffHookSet(lines0))
           /\ \A j \in 1..Len(calls) :
                /\ calls[j].channel = lines0[calls[j].line].channel
                /\ calls[j].resp \in {"success", "failure", "none"}
                /\ calls[j].resp = "success" => ~lines[calls[j].line].offhook
           /\ \A j \in 1..MAX_LINES : ~lines0[j].offhook => lines[j] = lines0[j]
           /\ res = 0

\* C6's case: k has returned with two lines off hook, the first hangup
\* failed and the second succeeded.
C6_Witness ==
    /\ InCommand
    /\ pc = "ret"
    /\ inputbuf = <<"k">>
    /\ Len(calls) = 2
    /\ calls[1].resp = "failure"
    /\ calls[2].resp = "success"
    /\ lines[1].offhook
    /\ ~lines[9].offhook

\* The text is a global command other than k.
OtherGlobal ==
    LET c == StripComment(inputbuf)
    IN  ~IsDigit(CharAt(c)) /\ ~StrCaseEq(c, <<"k">>)

\* C7: q ends the session normally without touching any line: no AMI action
\* is issued and no hook state or channel id changes, also with lines off
\* hook; the connection is released and the exit status is 0.  s<N>, ms<N>
\* and unknown global commands issue no AMI action and change no line.
C7_GlobalsTouchNoLine ==
    /\ (InCommand /\ OtherGlobal) => calls = <<>> /\ HookSame
    /\ (InCommand /\ pc = "ret" /\ OtherGlobal)
          => (res # 0 <=> StrCaseEq(inputbuf, <<"q">>))
    /\ (why = "q" /\ hpc = "none" /\ Alive)
          => calls = <<>> /\ HookSame /\ pc \in {"teardown", "teardown2"}
    /\ (why = "q" /\ pc = "exited")
          => /\ calls = <<>>
             /\ HookSame
             /\ ~connected
             /\ term = "orig"
             /\ exitStatus = <<EXIT_SUCCESS>>

\* C7's case: the process has exited after q with lines 1 and 9 off hook.
C7_Witness ==
    /\ pc = "exited"
    /\ why = "q"
    /\ inputbuf = <<"q">>
    /\ exitStatus = <<EXIT_SUCCESS>>
    /\ lines[1].offhook
    /\ lines[9].offhook

\* What holds of the handler at every moment: the terminal is restored as
\* soon as it runs, and when it exits it has attempted one hangup, in
\* ascending order, on exactly the lines that were off hook when the signal
\* came, has released the connection and exits with a failure status.
C8_Handler ==
    /\ hpc # "none" => term = "orig"
    /\ (pc = "exited" /\ why = "sigint")
          => /\ HangsUpExactly(hcalls, hlines0)
             /\ \A j \in 1..Len(hcalls) :
                  hcalls[j].resp \in {"success", "failure", "none"}
             /\ ~connected
             /\ term = "orig"
             /\ exitStatus = <<EXIT_FAILURE>>

\* C8: an interrupt delivered at any point of the session (at the prompt, in
\* the middle of a command, during a sleep) restores the terminal, attempts a
\* hangup on every line off hook at that moment, going on after a failure,
\* releases the connection, and the process eventually terminates with a
\* failure status.  The hangups are stated of the handler that runs to its
\* exit; the termination with a failure status of every delivery, also one
\* that a forced disconnect overtakes.
C8_Interrupt ==
    /\ []C8_Handler
    /\ (hpc # "none") ~> (pc = "exited" /\ exitStatus = <<EXIT_FAILURE>>)

\* C8's case: the interrupt came during a sleep with lines 1 and 9 off hook;
\* the hangup of line 1 failed, that of line 9 was still attempted, and the
\* handler has exited.
C8_Witness ==
    /\ pc = "exited"
    /\ why = "sigint"
    /\ hfrom = "sleep"
    /\ hlines0 = {1, 9}
    /\ Len(hcalls) = 2
    /\ hcalls[1].resp = "failure"
    /\ hcalls[2].line = 9
    /\ exitStatus = <<EXIT_FAILURE>>

\* C9: when a forced disconnect arrives, a hangup is still attempted on every
\* line that is off hook before the process terminates with a failure status.
C9_DisconnectHangsUp ==
    (pc = "exited" /\ why = "disconnect")
        => /\ \A k \in hlines0 : \E j \in 1..Len(hcalls) : hcalls[j].line = k
           /\ exitStatus = <<EXIT_FAILURE>>

\* C10: end of input leaves the loop through the teardown: a hangup is
\* attempted on every off-hook line, the terminal is restored, the connection
\* is released and the process exits with status 0.
C10_EofTeardown ==
    (pc = "exited" /\ why = "eof")
        => /\ \A k \in OffHookSet(lines0) :
                \E j \in 1..Len(calls) : calls[j].act = "Hangup" /\ calls[j].line = k
           /\ term = "orig"
           /\ ~connected
           /\ exitStatus = <<EXIT_SUCCESS>>

\* C11: for a line 1-9 that is off hook, <n>dt<digits> sends PlayDTMF exactly
\* once for each character after dt, in the order of the characters, each on
\* the channel line n holds, sends no other AMI action and changes no line.
\* Stated of the whole run of the command: the actions sent so far are the
\* first characters of the tail, and all of them once it returns.
C11_DtmfPerDigit ==
    \A k \in 1..MAX_LINES :
        (InCommand /\ LineCommand(k, <<"d", "t">>) /\ lines0[k].offhook)
            => LET tail == SubSeq(inputbuf, Len(Itoa(k)) + 3, Len(inputbuf))
               IN  /\ Len(calls) <= Len(tail)
                   /\ \A j \in 1..Len(calls) :
                        /\ calls[j].act = "PlayDTMF"
                        /\ calls[j].digit = tail[j]
                        /\ calls[j].channel = lines0[k].channel
                        /\ calls[j].line = k
                   /\ pc = "ret" => Len(calls) = Len(tail) /\ res = 0
                   /\ lines = lines0

\* C11's case: 1dt47 has returned on the off-hook line 1: two digits were
\* sent on its channel, the first of them failed.
C11_Witness ==
    /\ InCommand
    /\ pc = "ret"
    /\ inputbuf = <<"1", "d", "t", "4", "7">>
    /\ lines0[1].offhook
    /\ lines0[1].channel = Chan(<<"1">>, <<"b">>)
    /\ Len(calls) = 2
    /\ calls[1].digit = "4" /\ calls[1].resp = "failure"
    /\ calls[2].digit = "7" /\ calls[2].resp = "success"

\* The channel list a resolution got holds, between its first and its last
\* entry, a channel that starts with the device name of line k.
HasMatch(events, k) ==
    \E j \in 2..(Len(events) - 1) : IsPrefix(DeviceName(k), events[j])

\* C12: once the origination of <n>o has succeeded, line n is off hook and
\* stays so whether or not the resolution succeeds: neither a channel query
\* that fails nor a list without a channel of the line takes it back on hook;
\* OK is printed exactly when the resolution succeeds, a failure otherwise.
C12_OffHookDespiteResolution ==
    \A k \in 1..MAX_LINES :
        (/\ InCommand
         /\ n = k
         /\ Len(calls) >= 1
         /\ calls[1].act = "Originate"
         /\ calls[1].resp = "success")
            => /\ lines[k].offhook
               /\ Len(calls) = 2
               /\ calls[2].act = "CoreShowChannels"
               /\ pc = "ret" =>
                    /\ out = <<"OK">> <=>
                          calls[2].resp = "success" /\ HasMatch(calls[2].events, k)
                    /\ calls[2].resp = "none" => out = <<"Failed to show channels">>
                    /\ (calls[2].resp = "success" /\ ~HasMatch(calls[2].events, k))
                          => out = <<"Failed to find channel">>

\* C12's case: 1o on the on-hook line 1, the origination succeeded and the
\* channel list held only a channel of line 9: line 1 is off hook, unbound.
C12_Witness ==
    /\ InCommand
    /\ pc = "ret"
    /\ n = 1
    /\ ~lines0[1].offhook
    /\ Len(calls) = 2
    /\ calls[1].resp = "success"
    /\ calls[2].events = <<Header, Chan(<<"9">>, <<"a">>), Footer>>
    /\ out = <<"Failed to find channel">>
    /\ lines[1].offhook
    /\ lines[1].channel = <<>>

\* C13: when the origination of <n>o or the hangup of <n>h gets no response
\* or a failure, the command returns there: the hook state and the channel id
\* of every line, n included, are what they were before the command, and no
\* channel query (nor any other action) follows.
C13_FailedCallChangesNothing ==
    (/\ InCommand
     /\ n \in 1..MAX_LINES
     /\ Len(calls) >= 1
     /\ calls[1].act \in {"Originate", "Hangup"}
     /\ calls[1].resp \in {"failure", "none"})
        => /\ HookSame
           /\ Len(calls) = 1
           /\ pc = "ret"
           /\ res = 0
           /\ out # <<"OK">>

\* C13's case: 9o got no response while line 1 is off hook and bound: line 9
\* is on hook as before.
C13_Witness ==
    /\ InCommand
    /\ pc = "ret"
    /\ inputbuf = <<"9", "o">>
    /\ calls[1].act = "Originate"
    /\ calls[1].resp = "none"
    /\ out = <<"No response">>
    /\ lines[1].offhook
    /\ lines[1].channel = Chan(<<"1">>, <<"a">>)
    /\ ~lines[9].offhook

\* The text of t before its first ; (all of t when it has none).
BeforeComment(t) ==
    LET S == {i \in 1..Len(t) : t[i] = ";"}
    IN  IF S = {} THEN t
        ELSE SubSeq(t, 1, (CHOOSE i \in S : \A j \in S : i <= j) - 1)

\* The branch run_command has taken, as the state shows it after its first
\* step: the action it waits for, the loop or the sleep it is in, the message
\* it has printed, or its return of -1.
Taken ==
    CASE pc = "wait" -> op
      [] pc = "dt_loop" -> "dtmf"
      [] pc = "k_loop" -> "k"
      [] pc = "sleep" -> "sleep"
      [] pc = "ret" /\ res # 0 -> "quit"
      [] pc = "ret" /\ res = 0 /\ out # <<>> -> Head(out)
      [] OTHER -> ""

\* What Taken shows for each branch of run_command.
Branch(kind) ==
    CASE kind \in MessageKinds -> Message(kind)
      [] kind = "originate" -> "o"
      [] kind = "hangup" -> "h"
      [] kind = "flash" -> "f"
      [] kind = "dtmf" -> "dtmf"
      [] kind \in {"sleep", "msleep"} -> "sleep"
      [] kind = "quit" -> "quit"
      [] kind = "hangup_all" -> "k"

\* A step in which run_command starts on the text in the buffer and goes on
\* (no interrupt, no disconnect, no fault).
RunStep ==
    /\ MainAt("run")
    /\ hpc' = "none"
    /\ pc' \notin {"run", "exited", "crashed"}

\* The step does what run_command does on the text c: the same line number,
\* the same branch, the same digits to dial, the same writes to the registry
\* and the same first action.
RunsAs(c) ==
    LET p == Parsed(c)
    IN  /\ n' = p.n
        /\ Taken' = Branch(Kind(p, lines))
        /\ pc' = "dt_loop" => rest' = DialDigits(p.command)
        /\ lines' = Written(lines, p.n)
        /\ Len(calls') <= 1
        /\ calls' # <<>> => calls'[1].line = p.n

\* C14: a line c;s, c without ;, is parsed as c alone: run_command entered
\* with c;s takes the line number, the branch and the argument of c, so it
\* makes the calls and the state changes of c.
C14_CommentStripped ==
    [][RunStep => RunsAs(BeforeComment(inputbuf))]_vars

\* C14's case: 1dt4;7 (six characters typed) has run on the off-hook line 1
\* as 1dt4: one digit, 4, was sent.
C14_Witness ==
    /\ InCommand
    /\ pc = "ret"
    /\ left = InputBufSize - 1 - 6
    /\ inputbuf = <<"1", "d", "t", "4">>
    /\ lines0[1].offhook
    /\ Len(calls) = 1
    /\ calls[1].act = "PlayDTMF"
    /\ calls[1].digit = "4"

\* C15: the resolution for line n binds the first channel of the list, its
\* first and last entry left out, that starts with the device name of line n;
\* it succeeds exactly when there is one, and when it fails (no such channel,
\* or no answer to the query) the channel id of line n is as it was.  No
\* other line changes.
C15_ResolveFirstMatch ==
    \A k \in 1..MAX_LINES :
        (/\ InCommand
         /\ pc = "ret"
         /\ n = k
         /\ Len(calls) = 2
         /\ calls[2].act = "CoreShowChannels")
            => LET ev == calls[2].events
                   S == {j \in 2..(Len(ev) - 1) : IsPrefix(DeviceName(k), ev[j])}
                   found == calls[2].resp = "success" /\ S # {}
               IN  /\ found =>
                        /\ \E j \in S :
                             /\ \A i \in S : j <= i
                             /\ lines[k].channel = Take(ev[j], ChannelSize - 1)
                        /\ out = <<"OK">>
                   /\ ~found =>
                        /\ lines[k].channel = lines0[k].channel
                        /\ out # <<"OK">>
                   /\ \A j \in 1..MAX_LINES : j # k => lines[j] = lines0[j]

\* C15's case: the list held two channels of line 1, autotest1-b before
\* autotest1-a, while line 1 held autotest1-a from an earlier call: it is
\* bound to autotest1-b.
C15_Witness ==
    /\ InCommand
    /\ pc = "ret"
    /\ n = 1
    /\ Len(calls) = 2
    /\ calls[2].events = <<Header, Chan(<<"1">>, <<"b">>), Chan(<<"1">>, <<"a">>), Footer>>
    /\ lines0[1].channel = Chan(<<"1">>, <<"a">>)
    /\ lines[1].channel = Chan(<<"1">>, <<"b">>)
    /\ out = <<"OK">>

\* A teardown has begun: the session loop has been left, the SIGINT handler
\* runs, or the process is gone.
TeardownBegun == pc \in {"teardown", "teardown2", "exited"} \/ hpc # "none"

\* The step begins a teardown: the loop is left, the handler is entered, or
\* the disconnect callback runs.
TeardownStarts ==
    \/ pc \notin {"teardown", "teardown2", "exited"} /\ pc' = "teardown"
    \/ hpc = "none" /\ hpc' # "none"
    \/ why # "disconnect" /\ why' = "disconnect"

\* C16: however q or end of input, the interrupt and the forced disconnect
\* interleave with the main flow, the teardown is performed once: none begins
\* when one has begun; and once one has begun the main flow runs no command
\* and sends no AMI action: it only goes on with the teardown it is in.
C16_TeardownOnce ==
    [][/\ TeardownStarts => ~TeardownBegun
       /\ TeardownBegun =>
            /\ pc' = pc \/ pc' \in {"teardown2", "exited"}
            /\ calls' = calls \/ calls' = <<>>]_vars

\* C17: at every moment, also when an interrupt or a forced disconnect comes
\* in the middle of a command, at most one AMI action is sent and not yet
\* answered.
C17_OneOutstanding == outstanding <= 1

\* C18: while the input holds no newline and no ?, no command is run, and
\* the buffer never holds more than its capacity minus one: pos and left
\* move together, the buffer is marked for reset exactly when left is at the
\* margin, and the next write, of a character or of the terminator a newline
\* brings, is at an index inside the buffer.
C18_BufferBounded ==
    /\ pc = "poll" /\ hpc = "none"
    /\ calls = <<>> /\ out = <<>> /\ outstanding = 0
    /\ lines = [k \in 1..MAX_LINES |-> EmptyLine]
    /\ Len(inputbuf) <= InputBufSize - 1
    /\ left = InputBufSize - 1 - Len(inputbuf)
    /\ reset <=> left <= 1
    /\ Len(Pos0) < InputBufSize - 1

\* C18's case: the stream has filled the buffer to the margin, the buffer
\* was reset, and the characters that followed are held from its start.
C18_Witness ==
    /\ Len(stdin) = MaxStream - (InputBufSize + 2)
    /\ Len(inputbuf) = 4
    /\ ~reset

\* The text t without its leading white space and, when it then starts with
\* a number, without the white space between the number and what follows.
Unspaced(t) ==
    LET u == Ltrim(t)
        k == CHOOSE i \in 0..Len(u) :
                 /\ \A j \in 1..i : IsDigit(u[j])
                 /\ i < Len(u) => ~IsDigit(u[i + 1])
    IN  IF k = 0 THEN u
        ELSE SubSeq(u, 1, k) \o Ltrim(SubSeq(u, k + 1, Len(u)))

\* C19: white space before the line number or the global command, and
\* between the line number and the verb, is ignored: run_command entered
\* with such a text does what it does on the text without those spaces.
C19_WhitespaceIgnored ==
    [][RunStep => RunsAs(Unspaced(inputbuf))]_vars

\* The actions sent on the channel of a line.
ChannelActs == {"Hangup", "SendFlash", "PlayDTMF"}

\* Every channel action of the log was sent on a channel that is not empty
\* and that the resolution of the line's most recent origination had bound.
OnBoundChannel(log) ==
    \A j \in 1..Len(log) :
        log[j].act \in ChannelActs =>
            /\ log[j].channel # <<>>
            /\ log[j].bound

\* C20: every Hangup, SendFlash and PlayDTMF sent for a line, by h, f, dt, k
\* or the interrupt handler, is on a channel id bound by a successful
\* resolution of that line's most recent origination: never the empty id,
\* never an id left from an earlier call.
C20_CallsOnBoundChannel == OnBoundChannel(calls) /\ OnBoundChannel(hcalls)

\* C21: every line has at most one call leg that the session originated and
\* has not successfully hung up.  A leg is made by an Originate that succeeds
\* and a line is off hook from then until a Hangup of it succeeds, so the
\* first time a line gets a second leg is an Originate that succeeds on a
\* line that was off hook when the command started: there is no such
\* origination, in particular o on an off-hook line makes no second leg.
C21_OneLegPerLine ==
    \A k \in 1..MAX_LINES :
        (/\ InCommand
         /\ n = k
         /\ Len(calls) >= 1
         /\ calls[1].act = "Originate"
         /\ calls[1].resp = "success")
            => ~lines0[k].offhook

\* The commands of the lines of CommentLines: their part before the ;.
CommentHeads == {BeforeComment(l) : l \in CommentLines}

\* C22: whatever the length and the content of a typed line, what follows
\* its first ; is never run as a command and never changes which command is
\* run: the line does what its part before the ; does.  Stated of a session
\* in which every line typed is one of CommentLines: every command that is
\* run is the part before the ; of one of them, and only q ends the loop.
C22_CommentNeverRuns ==
    /\ InCommand => BeforeComment(inputbuf) \in CommentHeads
    /\ pc \in {"poll", "run", "sleep", "ret"}

=============================================================================
